---- MODULE Spec2Model ----
(***************************************************************************)
(* Control logic of the training entry point _main of src/main.py: option  *)
(* resolution, checkpoint restore (load_ckpt), the epoch/iteration loop    *)
(* with its validation cadence, save_ckpt into the "latest" and "best"     *)
(* slots, best-model selection and the two termination tests.              *)
(*                                                                         *)
(* Numbers that are floats in the program (Mean IoU, best_score) are       *)
(* integers on a scale 0..MaxScore; only their order matters to the code.  *)
(* Model weights, optimizer state and scheduler state are represented by   *)
(* the number of optimizer / scheduler steps that produced them (0 = as    *)
(* freshly constructed).  An optional option (argparse default None) is    *)
(* None or Some(v).  A Python exception that leaves _main is the terminal  *)
(* position "crashed" with the exception's type in err.                    *)
(*                                                                         *)
(* The run is the one main() starts after its own assertions passed:       *)
(* tracking enabled with project and team.  Spec and FairSpec are the run  *)
(* without a sweep (main calls _main once); SweepSpec is the run under     *)
(* wandb.agent, which calls _main once per trial.  wandb.config starts as  *)
(* the parsed options, with the trial's sweep parameters over them.  Under *)
(* SweepSpec --ckpt may name one of the two files the loop writes; under   *)
(* Spec and FairSpec it names another file.  RerunSpec is the program      *)
(* started again with the same command line, the files under checkpoints/  *)
(* kept, so that a run restores what the run before it saved.              *)
(* val_interval ranges                                                     *)
(* over None and the positive intervals.  PredictSpec is main of           *)
(* src/predict.py up to the loaded checkpoint and the prediction pass.     *)
(***************************************************************************)
EXTENDS Integers, Sequences, FiniteSets, TLC

\* ---------------------------------------------------------------- bounds
MaxItrs == 4
MaxEpochs == 2
MaxLen == 3
MaxVal == 3
MaxCkptItrs == 2
MaxScore == 2
MaxTrials == 2
MaxSweepItrs == 2

\* ------------------------------------------------------- optional values
None == <<>>
Some(x) == <<x>>
Get(o) == o[1]

Scores == 0..MaxScore

\* Line 449: the running loss is reported when cur_itrs % 10 == 0, and line
\* 450 divides it by the same 10.
ReportEvery == 10

\* ---------------------------------------------------------- hyperparameters
\* The three options a sweep overrides (lines 275-280).
SweepKeys == {"lr", "weight_decay", "loss_type"}

\* A hyperparameter value is its key with the place it comes from: 0 is the
\* command line (or argparse default), t >= 1 the sweep's value for trial t.
\* The command line's loss_type is one of argparse's two choices; a sweep's
\* loss_type is one of the two, or any other value.
CommandLine(key) == <<key, 0>>
SweepValue(key, t) == <<key, t>>
SweepLossOutsideChoices(t) == <<"loss_type", t, "outside choices">>

\* Lines 335-338: a criterion is bound for 'focal_loss' and 'cross_entropy'
\* only; there is no else.
criterion_bound(loss_type) ==
    \A t \in 1..MaxTrials : loss_type # SweepLossOutsideChoices(t)

\* wandb.config.get(key): None for a key the configuration does not hold.
config_get(config, key) ==
    IF key \in DOMAIN config THEN config[key] ELSE None

\* The values a sweep may set for a key in trial t.
SweepValuesOf(key, t) ==
    IF key = "loss_type"
    THEN {SweepValue(key, t), SweepLossOutsideChoices(t)}
    ELSE {SweepValue(key, t)}

\* The parameters the sweep controller may hand to trial t: values for the
\* keys the sweep definition sets, any of the three.
SweepParameters(t) ==
    UNION { { p \in [keys -> UNION { SweepValuesOf(k, t) : k \in SweepKeys }] :
                \A k \in keys : p[k] \in SweepValuesOf(k, t) } :
            keys \in SUBSET SweepKeys }

\* Line 249: wandb.init(config=vars(opts)) makes the parsed options the
\* run's configuration; the sweep's parameters lie over them.
init_config(o, parameters) ==
    [k \in SweepKeys |-> IF k \in DOMAIN parameters THEN parameters[k] ELSE o[k]]

\* The contents wandb.config may have in trial t after wandb.init.
SweepConfigs(t, o) ==
    { init_config(o, p) : p \in SweepParameters(t) }

\* What the optimizer (lr, weight_decay) and the criterion (loss_type) read.
Hyperparameters(o) ==
    [lr |-> o.lr, weight_decay |-> o.weight_decay, loss_type |-> o.loss_type]

VARIABLES
    opts,             \* parsed options (argparse namespace); a sweep trial overwrites three of them
    env,              \* what the run finds outside itself: the checkpoint file, the loader length
    pc,               \* position in _main
    err,              \* type of the exception that ended the run, "" while there is none
    constructed,      \* loaders, model, optimizer, scheduler, criterion exist
    ckpt,             \* resolved checkpoint path: "none", "local" (opts.ckpt) or "remote" (wandb.restore)
    model_state,      \* weights: optimizer steps that produced them
    model_mode,       \* "train" | "eval" (nn.Module.training)
    optimizer_state,  \* optimizer steps held in the optimizer's state
    scheduler_state,  \* scheduler steps held in the scheduler's state
    cur_itrs, cur_epochs, best_score, start_itrs,
    batch_idx,        \* batches of the current pass already taken from train_loader
    interval_loss,    \* number of batch losses held in the accumulator
    val_score,        \* Some(Mean IoU of the last validation pass), or None
    n_val,            \* calls of validate() so far
    latest_slot,      \* checkpoints/latest_<model>_<dataset>_os<stride>.pth: None or Some(bundle)
    best_slot,        \* checkpoints/best_<model>_<dataset>_os<stride>.pth: None or Some(bundle)
    wandb_finished,   \* calls of wandb_run.finish()
    passes_done,      \* completed passes over train_loader (exhausted for-loops)
    wandb_config,     \* wandb.config of the current trial: sweep key -> value
    trial,            \* invocations of _main so far, by the sweep agent or by new runs
    optimizer_hparams \* None, or Some(hyperparameters the optimizer and criterion were built with)

vars == <<opts, env, pc, err, constructed, ckpt, model_state, model_mode,
          optimizer_state, scheduler_state, cur_itrs, cur_epochs, best_score,
          start_itrs, batch_idx, interval_loss, val_score, n_val, latest_slot,
          best_slot, wandb_finished, passes_done, wandb_config, trial,
          optimizer_hparams>>

\* ------------------------------------------------------------ checkpoints
\* The bundle torch.save writes in save_ckpt.
save_ckpt(itrs, model, optimizer, scheduler, best) ==
    [cur_itrs |-> itrs, model_state |-> model, optimizer_state |-> optimizer,
     scheduler_state |-> scheduler, best_score |-> best]

\* A checkpoint file left by earlier runs of this loop, saved at iteration
\* k >= 1 with best score b.  Every save precedes the scheduler step of its
\* iteration (456 and 472 before 487) and a resumed run starts from the
\* scheduler state of its file (361), so the stored scheduler is one step
\* behind the iteration for every run of the chain that led to the file:
\* any s < k.
CkptFiles ==
    UNION { { save_ckpt(k, k, k, s, b) : s \in 0..(k - 1), b \in Scores } :
            k \in 1..MaxCkptItrs }

\* ---------------------------------------------------------------- options
GeneralOpts ==
    [ ckpt : BOOLEAN, wandb_restore_ckpt : BOOLEAN, wandb_restore_run_path : BOOLEAN,
      wandb_run_name : BOOLEAN,
      continue_training : BOOLEAN, ignore_previous_best_score : BOOLEAN,
      test_only : BOOLEAN,
      total_itrs : 1..MaxItrs,
      n_epochs : {None} \cup { Some(n) : n \in 1..MaxEpochs },
      val_interval : {None} \cup { Some(n) : n \in 1..MaxVal },
      sweep : {FALSE},
      lr : {CommandLine("lr")}, weight_decay : {CommandLine("weight_decay")},
      loss_type : {CommandLine("loss_type")} ]

\* Where --ckpt points: at one of the two files the loop writes, or elsewhere.
CkptPaths == {"latest", "best", "elsewhere"}

GeneralEnv ==
    [ isfile : BOOLEAN, file : CkptFiles, len_train_loader : 0..MaxLen,
      ckpt_path : {"elsewhere"} ]

\* The worked scenario of the validation cadence: a fresh run, 20 iterations,
\* 5 batches per pass, --wandb_run_name given (without it and without --ckpt
\* get_wandb_run raises), everything else at its argparse default.
ScenarioOpts ==
    [ ckpt |-> FALSE, wandb_restore_ckpt |-> FALSE, wandb_restore_run_path |-> FALSE,
      wandb_run_name |-> TRUE,
      continue_training |-> FALSE, ignore_previous_best_score |-> FALSE,
      test_only |-> FALSE, total_itrs |-> 20, n_epochs |-> None,
      val_interval |-> None, sweep |-> FALSE,
      lr |-> CommandLine("lr"), weight_decay |-> CommandLine("weight_decay"),
      loss_type |-> CommandLine("loss_type") ]

ScenarioEnv ==
    [ isfile |-> FALSE, file |-> save_ckpt(1, 1, 1, 0, 0), len_train_loader |-> 5,
      ckpt_path |-> "elsewhere" ]

\* Runs long enough to report the running loss: --total_itrs 10 with
\* --n_epochs 10 (without an epoch budget the first pass boundary raises) and
\* --wandb_run_name, fresh or with --ckpt and --continue_training.
ReportOpts ==
    { [ScenarioOpts EXCEPT !.ckpt = c, !.continue_training = c,
                           !.total_itrs = ReportEvery,
                           !.n_epochs = Some(ReportEvery)] : c \in BOOLEAN }

ReportEnv(o) ==
    { [isfile |-> o.ckpt, file |-> f, len_train_loader |-> MaxLen,
       ckpt_path |-> "elsewhere"] :
        f \in IF o.ckpt THEN CkptFiles ELSE {save_ckpt(1, 1, 1, 0, 0)} }

\* The run returns or raises before the loop at line 422: the evaluation-only
\* branch (413-418), get_wandb_run without a name (228), the assertions on
\* the restore options (376-377), a missing --ckpt file (382), or load_ckpt
\* without continue_training (366-372).
EndsBeforeLoop(o, e) ==
    \/ o.test_only
    \/ ~(o.ckpt \/ o.wandb_run_name)
    \/ o.ckpt /\ (o.wandb_restore_ckpt \/ o.wandb_restore_run_path)
    \/ o.wandb_restore_ckpt # o.wandb_restore_run_path
    \/ o.ckpt /\ ~e.isfile
    \/ (o.ckpt \/ o.wandb_restore_ckpt) /\ ~o.continue_training

\* One representative per run: what is never read is held at a fixed value.
Canonical(o, e) ==
    /\ (~o.ckpt) => ~e.isfile
    /\ (~(o.ckpt /\ e.isfile) /\ ~(o.wandb_restore_ckpt /\ o.wandb_restore_run_path))
          => /\ e.file = save_ckpt(1, 1, 1, 0, 0)
             /\ ~o.continue_training /\ ~o.ignore_previous_best_score
    /\ EndsBeforeLoop(o, e)
          => /\ o.total_itrs = 1 /\ o.n_epochs = None /\ o.val_interval = None
             /\ e.len_train_loader = 0

\* Nothing constructed, restored, trained or validated yet.
NothingYet ==
    /\ err = ""
    /\ constructed = FALSE
    /\ ckpt = "none"
    /\ model_state = 0
    /\ model_mode = "train"
    /\ optimizer_state = 0
    /\ scheduler_state = 0
    /\ cur_itrs = 0
    /\ cur_epochs = 0
    /\ best_score = 0
    /\ start_itrs = 0
    /\ batch_idx = 0
    /\ interval_loss = 0
    /\ val_score = None
    /\ n_val = 0
    /\ wandb_finished = 0
    /\ passes_done = 0
    /\ optimizer_hparams = None

\* The locals of a _main frame before its first statement.
FreshFrame ==
    /\ pc = "parse"
    /\ NothingYet

Init ==
    /\ \/ /\ opts \in GeneralOpts
          /\ env \in GeneralEnv
          /\ Canonical(opts, env)
       \/ /\ opts = ScenarioOpts
          /\ env = ScenarioEnv
       \/ /\ opts \in ReportOpts
          /\ env \in ReportEnv(opts)
    /\ FreshFrame
    /\ latest_slot = None
    /\ best_slot = None
    /\ wandb_config = None
    /\ trial = 1

\* What torch.load reads at the resolved checkpoint path (line 355): the
\* file found at the start of the run, or, when --ckpt names one of the two
\* files the loop writes, what that file holds now.
checkpoint_file(e, latest, best) ==
    IF e.ckpt_path = "latest" /\ latest # None THEN Get(latest)
    ELSE IF e.ckpt_path = "best" /\ best # None THEN Get(best)
    ELSE e.file

\* os.path.isfile at the --ckpt path (line 382): a slot the loop has written
\* exists from then on.
checkpoint_isfile(e, latest, best) ==
    IF e.ckpt_path = "latest" THEN latest # None
    ELSE IF e.ckpt_path = "best" THEN best # None
    ELSE e.isfile

\* ------------------------------------------------------------ pure steps
\* Line 376: "Cannot restore from both checkpoint file and wandb".
RestoreConflict(o) ==
    o.ckpt /\ (o.wandb_restore_ckpt \/ o.wandb_restore_run_path)

\* Line 377: both halves of the remote pair, or neither.
RestorePairIncomplete(o) ==
    o.wandb_restore_ckpt # o.wandb_restore_run_path

\* load_ckpt with the scheduler left as constructed.
load_ckpt_keeps_scheduler(file, continue_training, optimizer, scheduler) ==
    IF continue_training
    THEN [ raised |-> FALSE,
           model |-> file.model_state,
           optimizer |-> file.optimizer_state,
           scheduler |-> scheduler,
           cur_itrs |-> file.cur_itrs,
           best_score |-> file.best_score ]
    ELSE [ raised |-> TRUE,
           model |-> file.model_state,
           optimizer |-> optimizer,
           scheduler |-> scheduler,
           cur_itrs |-> 0,
           best_score |-> 0 ]

\* load_ckpt: the weights are loaded first; cur_itrs and best_score are
\* locals of load_ckpt, bound only under continue_training, so the return
\* statement raises UnboundLocalError when the flag is off.
load_ckpt(file, continue_training, optimizer, scheduler) ==
    IF continue_training
    THEN [ raised |-> FALSE,
           model |-> file.model_state,
           optimizer |-> file.optimizer_state,
           scheduler |-> file.scheduler_state,
           cur_itrs |-> file.cur_itrs,
           best_score |-> file.best_score ]
    ELSE [ raised |-> TRUE,
           model |-> file.model_state,
           optimizer |-> optimizer,
           scheduler |-> scheduler,
           cur_itrs |-> 0,
           best_score |-> 0 ]

\* Line 400.
RestoredBestScore(ignore_previous_best_score, loaded_best) ==
    IF ignore_previous_best_score THEN 0 ELSE loaded_best

\* Line 421.
val_interval(o, e) ==
    IF o.val_interval # None THEN Get(o.val_interval) ELSE e.len_train_loader

\* The cadence counted from iteration 0 instead of the run's start.
CadenceFires_absolute(itrs, start, len, interval) ==
    (itrs % len) % interval = 0

\* Line 455.
CadenceFires(itrs, start, len, interval) ==
    ((itrs - start) % len) % interval = 0

\* The comparison with >= in place of >.
IsBetter_or_equal(score, best) == score >= best

\* Line 470.
IsBetter(score, best) == score > best

\* The budget test with > in place of >=.
ItrsBudgetReached_strict(itrs, total_itrs) == itrs > total_itrs

\* Line 489.
ItrsBudgetReached(itrs, total_itrs) == itrs >= total_itrs

\* Line 493, for a configured budget.
EpochBudgetReached(epochs, n_epochs) == epochs >= n_epochs

\* The epoch counter left alone at the start of a pass.
NextEpoch_none(epochs) == epochs

\* Line 425.
NextEpoch(epochs) == epochs + 1

\* The iteration counter advanced twice per batch.
NextItr_twice(itrs) == itrs + 2

\* Line 427.
NextItr(itrs) == itrs + 1

\* Lines 275-277: the three assertions on wandb.config.
SweepKeysMissing(config) ==
    \E key \in SweepKeys : config_get(config, key) = None

\* Lines 278-280: the sweep's values replace the parsed ones.
SweepOverride(o, config) ==
    [o EXCEPT !.lr = config_get(config, "lr"),
              !.weight_decay = config_get(config, "weight_decay"),
              !.loss_type = config_get(config, "loss_type")]

\* Lines 254-255: every call of _main parses the same command line into a
\* new namespace.
parse_args(o) ==
    [o EXCEPT !.lr = CommandLine("lr"),
              !.weight_decay = CommandLine("weight_decay"),
              !.loss_type = CommandLine("loss_type")]

\* ---------------------------------------------------------------- actions
Crash(type) ==
    /\ pc' = "crashed"
    /\ err' = type

\* Lines 269-282: get_wandb_run builds the run name from ckpt.split('/')
\* unless --wandb_run_name is given; opts.ckpt is None without --ckpt.
\* wandb.init leaves the options, under a sweep with the trial's parameters
\* over them, in wandb.config.  Under a sweep the three assertions and the
\* override follow; line 282 then writes opts, now equal to it in the three
\* keys, into the configuration.
GetWandbRun ==
    /\ pc = "parse"
    /\ IF ~opts.wandb_run_name /\ ~opts.ckpt
       THEN Crash("AttributeError") /\ UNCHANGED <<opts, wandb_config>>
       ELSE IF opts.sweep
            THEN \E config \in SweepConfigs(trial, opts) :
                    /\ wandb_config' = Some(config)
                    /\ IF SweepKeysMissing(config)
                       THEN Crash("AssertionError") /\ UNCHANGED opts
                       ELSE /\ opts' = SweepOverride(opts, config)
                            /\ pc' = "setup"
                            /\ UNCHANGED err
            ELSE /\ wandb_config' = Some(init_config(opts, <<>>))
                 /\ pc' = "setup"
                 /\ UNCHANGED <<err, opts>>
    /\ UNCHANGED <<trial, optimizer_hparams>>
    /\ UNCHANGED <<env, constructed, ckpt, model_state, model_mode,
                   optimizer_state, scheduler_state, cur_itrs, cur_epochs,
                   best_score, start_itrs, batch_idx, interval_loss, val_score,
                   n_val, latest_slot, best_slot, wandb_finished, passes_done>>

\* Lines 284-338: visualizer, device, seeds, loaders, model, metrics,
\* optimizer, scheduler, criterion.
Setup ==
    /\ pc = "setup"
    /\ constructed' = TRUE
    /\ model_state' = 0
    /\ optimizer_state' = 0
    /\ scheduler_state' = 0
    /\ pc' = "check_restore"
    /\ optimizer_hparams' = Some(Hyperparameters(opts))
    /\ UNCHANGED <<wandb_config, trial>>
    /\ UNCHANGED <<opts, env, err, ckpt, model_mode, cur_itrs, cur_epochs,
                   best_score, start_itrs, batch_idx, interval_loss, val_score,
                   n_val, latest_slot, best_slot, wandb_finished, passes_done>>

\* Lines 374-380: the two assertions on the restore options, then the
\* counters of a fresh run.
CheckRestoreArgs ==
    /\ pc = "check_restore"
    /\ IF RestoreConflict(opts) \/ RestorePairIncomplete(opts)
       THEN /\ Crash("AssertionError")
            /\ UNCHANGED <<best_score, cur_itrs, cur_epochs>>
       ELSE /\ best_score' = 0
            /\ cur_itrs' = 0
            /\ cur_epochs' = 0
            /\ pc' = "resolve"
            /\ UNCHANGED err
    /\ UNCHANGED <<wandb_config, trial, optimizer_hparams>>
    /\ UNCHANGED <<opts, env, constructed, ckpt, model_state, model_mode,
                   optimizer_state, scheduler_state, start_itrs, batch_idx,
                   interval_loss, val_score, n_val, latest_slot, best_slot,
                   wandb_finished, passes_done>>

\* Lines 381-394.
ResolveCkpt ==
    /\ pc = "resolve"
    /\ IF opts.ckpt
       THEN IF checkpoint_isfile(env, latest_slot, best_slot)
            THEN ckpt' = "local" /\ pc' = "restore" /\ UNCHANGED err
            ELSE Crash("AssertionError") /\ UNCHANGED ckpt
       ELSE /\ ckpt' = IF opts.wandb_restore_ckpt THEN "remote" ELSE "none"
            /\ pc' = "restore"
            /\ UNCHANGED err
    /\ UNCHANGED <<wandb_config, trial, optimizer_hparams>>
    /\ UNCHANGED <<opts, env, constructed, model_state, model_mode,
                   optimizer_state, scheduler_state, cur_itrs, cur_epochs,
                   best_score, start_itrs, batch_idx, interval_loss, val_score,
                   n_val, latest_slot, best_slot, wandb_finished, passes_done>>

\* Lines 396-411: restore through load_ckpt or "[!] Retrain", then start_itrs.
Restore ==
    /\ pc = "restore"
    /\ IF ckpt # "none"
       THEN LET loaded == load_ckpt(checkpoint_file(env, latest_slot, best_slot),
                                    opts.continue_training,
                                    optimizer_state, scheduler_state)
            IN  /\ model_state' = loaded.model
                /\ IF loaded.raised
                   THEN /\ Crash("UnboundLocalError")
                        /\ UNCHANGED <<optimizer_state, scheduler_state, cur_itrs,
                                       best_score, start_itrs>>
                   ELSE /\ optimizer_state' = loaded.optimizer
                        /\ scheduler_state' = loaded.scheduler
                        /\ cur_itrs' = loaded.cur_itrs
                        /\ best_score' = RestoredBestScore(opts.ignore_previous_best_score,
                                                           loaded.best_score)
                        /\ start_itrs' = loaded.cur_itrs
                        /\ pc' = IF opts.test_only THEN "test_only" ELSE "epoch"
                        /\ UNCHANGED err
       ELSE /\ start_itrs' = cur_itrs
            /\ pc' = IF opts.test_only THEN "test_only" ELSE "epoch"
            /\ UNCHANGED <<err, model_state, optimizer_state, scheduler_state,
                           cur_itrs, best_score>>
    /\ UNCHANGED <<wandb_config, trial, optimizer_hparams>>
    /\ UNCHANGED <<opts, env, constructed, ckpt, model_mode, cur_epochs,
                   batch_idx, interval_loss, val_score, n_val, latest_slot,
                   best_slot, wandb_finished, passes_done>>

\* The evaluation-only branch without its return: the loop follows.
TestOnly_falls_through ==
    /\ pc = "test_only"
    /\ model_mode' = "eval"
    /\ \E s \in Scores : val_score' = Some(s)
    /\ n_val' = n_val + 1
    /\ pc' = "epoch"
    /\ UNCHANGED <<wandb_config, trial, optimizer_hparams>>
    /\ UNCHANGED <<opts, env, err, constructed, ckpt, model_state,
                   optimizer_state, scheduler_state, cur_itrs, cur_epochs,
                   best_score, start_itrs, batch_idx, interval_loss,
                   latest_slot, best_slot, wandb_finished, passes_done>>

\* Lines 413-418: one validation pass, then return.
TestOnly ==
    /\ pc = "test_only"
    /\ model_mode' = "eval"
    /\ \E s \in Scores : val_score' = Some(s)
    /\ n_val' = n_val + 1
    /\ pc' = "done"
    /\ UNCHANGED <<wandb_config, trial, optimizer_hparams>>
    /\ UNCHANGED <<opts, env, err, constructed, ckpt, model_state,
                   optimizer_state, scheduler_state, cur_itrs, cur_epochs,
                   best_score, start_itrs, batch_idx, interval_loss,
                   latest_slot, best_slot, wandb_finished, passes_done>>

\* Lines 422-426: top of the while loop; the for loop over train_loader
\* starts, and is exhausted at once when the loader is empty.
EpochStart ==
    /\ pc = "epoch"
    /\ model_mode' = "train"
    /\ cur_epochs' = NextEpoch(cur_epochs)
    /\ batch_idx' = 0
    /\ IF env.len_train_loader = 0
       THEN pc' = "epoch_end" /\ passes_done' = passes_done + 1
       ELSE pc' = "batch" /\ UNCHANGED passes_done
    /\ UNCHANGED <<wandb_config, trial, optimizer_hparams>>
    /\ UNCHANGED <<opts, env, err, constructed, ckpt, model_state,
                   optimizer_state, scheduler_state, cur_itrs, best_score,
                   start_itrs, interval_loss, val_score, n_val, latest_slot,
                   best_slot, wandb_finished>>

\* Lines 427-455: one batch: counter, forward/backward, optimizer step,
\* loss accumulation and report, then the cadence test.  Without a
\* criterion line 437 raises UnboundLocalError after the counter.
TrainBatch ==
    /\ pc = "batch"
    /\ batch_idx' = batch_idx + 1
    /\ cur_itrs' = NextItr(cur_itrs)
    /\ IF criterion_bound(opts.loss_type)
       THEN /\ optimizer_state' = optimizer_state + 1
            /\ model_state' = model_state + 1
            /\ interval_loss' = IF cur_itrs' % ReportEvery = 0 THEN 0
                                ELSE interval_loss + 1
            /\ pc' = IF CadenceFires(cur_itrs', start_itrs, env.len_train_loader,
                                     val_interval(opts, env))
                     THEN "save_latest" ELSE "sched"
            /\ UNCHANGED err
       ELSE /\ Crash("UnboundLocalError")
            /\ UNCHANGED <<optimizer_state, model_state, interval_loss>>
    /\ UNCHANGED <<wandb_config, trial, optimizer_hparams>>
    /\ UNCHANGED <<opts, env, constructed, ckpt, model_mode,
                   scheduler_state, cur_epochs, best_score, start_itrs,
                   val_score, n_val, latest_slot, best_slot, wandb_finished,
                   passes_done>>

\* The validation event without its "latest" save.
SaveLatest_skipped ==
    /\ pc = "save_latest"
    /\ pc' = "validate"
    /\ UNCHANGED <<wandb_config, trial, optimizer_hparams>>
    /\ UNCHANGED <<opts, env, err, constructed, ckpt, model_state, model_mode,
                   optimizer_state, scheduler_state, cur_itrs, cur_epochs,
                   best_score, start_itrs, batch_idx, interval_loss, val_score,
                   n_val, latest_slot, best_slot, wandb_finished, passes_done>>

\* Lines 456-457.
SaveLatest ==
    /\ pc = "save_latest"
    /\ latest_slot' = Some(save_ckpt(cur_itrs, model_state, optimizer_state,
                                     scheduler_state, best_score))
    /\ pc' = "validate"
    /\ UNCHANGED <<wandb_config, trial, optimizer_hparams>>
    /\ UNCHANGED <<opts, env, err, constructed, ckpt, model_state, model_mode,
                   optimizer_state, scheduler_state, cur_itrs, cur_epochs,
                   best_score, start_itrs, batch_idx, interval_loss, val_score,
                   n_val, best_slot, wandb_finished, passes_done>>

\* Lines 458-468: model.eval(), validate(), logging of the score.
Validate ==
    /\ pc = "validate"
    /\ model_mode' = "eval"
    /\ \E s \in Scores : val_score' = Some(s)
    /\ n_val' = n_val + 1
    /\ pc' = "select_best"
    /\ UNCHANGED <<wandb_config, trial, optimizer_hparams>>
    /\ UNCHANGED <<opts, env, err, constructed, ckpt, model_state,
                   optimizer_state, scheduler_state, cur_itrs, cur_epochs,
                   best_score, start_itrs, batch_idx, interval_loss,
                   latest_slot, best_slot, wandb_finished, passes_done>>

\* The "best" save made before best_score is updated.
SelectBest_saves_previous ==
    /\ pc = "select_best"
    /\ IF IsBetter(Get(val_score), best_score)
       THEN /\ best_score' = Get(val_score)
            /\ best_slot' = Some(save_ckpt(cur_itrs, model_state, optimizer_state,
                                           scheduler_state, best_score))
       ELSE UNCHANGED <<best_score, best_slot>>
    /\ model_mode' = "train"
    /\ pc' = "sched"
    /\ UNCHANGED <<wandb_config, trial, optimizer_hparams>>
    /\ UNCHANGED <<opts, env, err, constructed, ckpt, model_state,
                   optimizer_state, scheduler_state, cur_itrs, cur_epochs,
                   start_itrs, batch_idx, interval_loss, val_score, n_val,
                   latest_slot, wandb_finished, passes_done>>

\* The selection step without the model.train() that ends the event.
SelectBest_stays_eval ==
    /\ pc = "select_best"
    /\ IF IsBetter(Get(val_score), best_score)
       THEN /\ best_score' = Get(val_score)
            /\ best_slot' = Some(save_ckpt(cur_itrs, model_state, optimizer_state,
                                           scheduler_state, best_score'))
       ELSE UNCHANGED <<best_score, best_slot>>
    /\ pc' = "sched"
    /\ UNCHANGED <<wandb_config, trial, optimizer_hparams>>
    /\ UNCHANGED <<opts, env, err, constructed, ckpt, model_state,
                   optimizer_state, scheduler_state, cur_itrs, cur_epochs,
                   model_mode, start_itrs, batch_idx, interval_loss, val_score, n_val,
                   latest_slot, wandb_finished, passes_done>>

\* Lines 470-486: best-model selection, visualisation, model.train().
SelectBest ==
    /\ pc = "select_best"
    /\ IF IsBetter(Get(val_score), best_score)
       THEN /\ best_score' = Get(val_score)
            /\ best_slot' = Some(save_ckpt(cur_itrs, model_state, optimizer_state,
                                           scheduler_state, best_score'))
       ELSE UNCHANGED <<best_score, best_slot>>
    /\ model_mode' = "train"
    /\ pc' = "sched"
    /\ UNCHANGED <<wandb_config, trial, optimizer_hparams>>
    /\ UNCHANGED <<opts, env, err, constructed, ckpt, model_state,
                   optimizer_state, scheduler_state, cur_itrs, cur_epochs,
                   start_itrs, batch_idx, interval_loss, val_score, n_val,
                   latest_slot, wandb_finished, passes_done>>

\* Lines 487-492: scheduler step, then the iteration-budget test; otherwise
\* the for loop takes the next batch or is exhausted.
SchedStep ==
    /\ pc = "sched"
    /\ scheduler_state' = scheduler_state + 1
    /\ IF ItrsBudgetReached(cur_itrs, opts.total_itrs)
       THEN /\ wandb_finished' = wandb_finished + 1
            /\ pc' = "done"
            /\ UNCHANGED passes_done
       ELSE IF batch_idx < env.len_train_loader
            THEN pc' = "batch" /\ UNCHANGED <<wandb_finished, passes_done>>
            ELSE /\ pc' = "epoch_end"
                 /\ passes_done' = passes_done + 1
                 /\ UNCHANGED wandb_finished
    /\ UNCHANGED <<wandb_config, trial, optimizer_hparams>>
    /\ UNCHANGED <<opts, env, err, constructed, ckpt, model_state, model_mode,
                   optimizer_state, cur_itrs, cur_epochs, best_score, start_itrs,
                   batch_idx, interval_loss, val_score, n_val, latest_slot,
                   best_slot>>

\* Lines 493-496: the epoch-budget test after the for loop; comparing an int
\* with None (the default of --n_epochs) raises TypeError.
EpochEnd ==
    /\ pc = "epoch_end"
    /\ IF opts.n_epochs = None
       THEN Crash("TypeError") /\ UNCHANGED wandb_finished
       ELSE IF EpochBudgetReached(cur_epochs, Get(opts.n_epochs))
            THEN /\ wandb_finished' = wandb_finished + 1
                 /\ pc' = "done"
                 /\ UNCHANGED err
            ELSE pc' = "epoch" /\ UNCHANGED <<err, wandb_finished>>
    /\ UNCHANGED <<wandb_config, trial, optimizer_hparams>>
    /\ UNCHANGED <<opts, env, constructed, ckpt, model_state, model_mode,
                   optimizer_state, scheduler_state, cur_itrs, cur_epochs,
                   best_score, start_itrs, batch_idx, interval_loss, val_score,
                   n_val, latest_slot, best_slot, passes_done>>

\* Lines 532-533: wandb.agent calls _main once per trial, one trial after
\* the other, also after a trial that ended in an exception.  The call has
\* a new frame and a new namespace; the files under checkpoints/ stay.
NextTrial ==
    /\ opts.sweep
    /\ pc \in {"done", "crashed"}
    /\ trial < MaxTrials
    /\ trial' = trial + 1
    /\ opts' = parse_args(opts)
    /\ wandb_config' = None
    /\ pc' = "parse"
    /\ err' = ""
    /\ constructed' = FALSE
    /\ ckpt' = "none"
    /\ model_state' = 0
    /\ model_mode' = "train"
    /\ optimizer_state' = 0
    /\ scheduler_state' = 0
    /\ cur_itrs' = 0
    /\ cur_epochs' = 0
    /\ best_score' = 0
    /\ start_itrs' = 0
    /\ batch_idx' = 0
    /\ interval_loss' = 0
    /\ val_score' = None
    /\ n_val' = 0
    /\ wandb_finished' = 0
    /\ passes_done' = 0
    /\ optimizer_hparams' = None
    /\ UNCHANGED <<env, latest_slot, best_slot>>

Next ==
    \/ GetWandbRun
    \/ Setup
    \/ CheckRestoreArgs
    \/ ResolveCkpt
    \/ Restore
    \/ TestOnly
    \/ EpochStart
    \/ TrainBatch
    \/ SaveLatest
    \/ Validate
    \/ SelectBest
    \/ SchedStep
    \/ EpochEnd

Spec == Init /\ [][Next]_vars

\* The program is one synchronous thread: a step that can be taken is taken.
FairSpec == Spec /\ WF_vars(Next)

\* ------------------------------------------------------------ sweep agent
\* Runs of main() with --wandb_sweep_config or --wandb_sweep_id, restoring
\* from a local checkpoint or from none.
SweepOpts ==
    [ ckpt : BOOLEAN, wandb_restore_ckpt : {FALSE}, wandb_restore_run_path : {FALSE},
      wandb_run_name : BOOLEAN,
      continue_training : BOOLEAN, ignore_previous_best_score : {FALSE},
      test_only : BOOLEAN,
      total_itrs : 1..MaxSweepItrs,
      n_epochs : {None} \cup { Some(n) : n \in 1..MaxSweepItrs },
      val_interval : {None} \cup { Some(n) : n \in 1..MaxSweepItrs },
      sweep : {TRUE},
      lr : {CommandLine("lr")}, weight_decay : {CommandLine("weight_decay")},
      loss_type : {CommandLine("loss_type")} ]

SweepEnv ==
    [ isfile : BOOLEAN, file : CkptFiles, len_train_loader : 0..MaxSweepItrs,
      ckpt_path : CkptPaths ]

\* One representative per sweep: what no trial reads is held at a fixed value.
SweepCanonical(o, e) ==
    /\ (~o.ckpt) => ~e.isfile /\ e.ckpt_path = "elsewhere"
    /\ (~e.isfile) => e.file = save_ckpt(1, 1, 1, 0, 0)
    /\ (~e.isfile /\ e.ckpt_path = "elsewhere") => ~o.continue_training
    /\ (o.test_only \/ ~(o.ckpt \/ o.wandb_run_name)) =>
          /\ o.total_itrs = 1 /\ o.n_epochs = None /\ o.val_interval = None
          /\ e.len_train_loader = 0
    /\ ~(o.ckpt \/ o.wandb_run_name) => ~o.test_only

\* A file --ckpt finds at the path of a slot is what that slot holds.
SlotAtStart(e, path) ==
    IF e.isfile /\ e.ckpt_path = path THEN Some(e.file) ELSE None

SweepInit ==
    /\ opts \in SweepOpts
    /\ env \in SweepEnv
    /\ SweepCanonical(opts, env)
    /\ FreshFrame
    /\ latest_slot = SlotAtStart(env, "latest")
    /\ best_slot = SlotAtStart(env, "best")
    /\ wandb_config = None
    /\ trial = 1

SweepNext == Next \/ NextTrial

SweepSpec == SweepInit /\ [][SweepNext]_vars

\* ------------------------------------------------------- the program run again
\* Lines 538-539: the program is started again with the same command line
\* after a run has ended, as a job that is resumed.  The new process has
\* nothing of the old one; the files under checkpoints/ stay.
NextRun ==
    /\ ~opts.sweep
    /\ pc \in {"done", "crashed"}
    /\ trial < MaxTrials
    /\ trial' = trial + 1
    /\ opts' = parse_args(opts)
    /\ wandb_config' = None
    /\ pc' = "parse"
    /\ err' = ""
    /\ constructed' = FALSE
    /\ ckpt' = "none"
    /\ model_state' = 0
    /\ model_mode' = "train"
    /\ optimizer_state' = 0
    /\ scheduler_state' = 0
    /\ cur_itrs' = 0
    /\ cur_epochs' = 0
    /\ best_score' = 0
    /\ start_itrs' = 0
    /\ batch_idx' = 0
    /\ interval_loss' = 0
    /\ val_score' = None
    /\ n_val' = 0
    /\ wandb_finished' = 0
    /\ passes_done' = 0
    /\ optimizer_hparams' = None
    /\ UNCHANGED <<env, latest_slot, best_slot>>

\* Command lines without a sweep, with short budgets.
RerunOpts ==
    [ ckpt : BOOLEAN, wandb_restore_ckpt : BOOLEAN, wandb_restore_run_path : BOOLEAN,
      wandb_run_name : BOOLEAN,
      continue_training : BOOLEAN, ignore_previous_best_score : BOOLEAN,
      test_only : BOOLEAN,
      total_itrs : 1..MaxSweepItrs,
      n_epochs : {None} \cup { Some(n) : n \in 1..MaxSweepItrs },
      val_interval : {None} \cup { Some(n) : n \in 1..MaxSweepItrs },
      sweep : {FALSE},
      lr : {CommandLine("lr")}, weight_decay : {CommandLine("weight_decay")},
      loss_type : {CommandLine("loss_type")} ]

\* The first run: --ckpt may name a file the loop writes.
RerunInit ==
    /\ opts \in RerunOpts
    /\ env \in SweepEnv
    /\ Canonical(opts, env)
    /\ (~opts.ckpt) => env.ckpt_path = "elsewhere"
    /\ FreshFrame
    /\ latest_slot = SlotAtStart(env, "latest")
    /\ best_slot = SlotAtStart(env, "best")
    /\ wandb_config = None
    /\ trial = 1

RerunNext == Next \/ NextRun

RerunSpec == RerunInit /\ [][RerunNext]_vars

\* ------------------------------------------------------ prediction (predict.py)
\* The restore options of predict.py (True: given on the command line) and
\* what its main finds: --input is a file or directory, --ckpt is a file,
\* WANDB_TOKEN is set, the checkpoint the chosen source holds.
PredictOpts ==
    [ ckpt : BOOLEAN, wandb_restore_ckpt : BOOLEAN, wandb_restore_run_path : BOOLEAN ]

PredictEnv ==
    [ input_exists : BOOLEAN, isfile : BOOLEAN, token : BOOLEAN, file : CkptFiles ]

PredictInit ==
    /\ opts \in PredictOpts
    /\ env \in PredictEnv
    /\ pc = "predict_parse"
    /\ NothingYet
    /\ latest_slot = None
    /\ best_slot = None
    /\ wandb_config = None
    /\ trial = 1

\* Python values of the three options and of the expressions of line 98,
\* each with its type: str for a given option, NoneType for an absent one.
PyStr == <<"str">>
PyNone == <<"NoneType">>
PyBool(b) == <<"bool", b>>
PyOption(given) == IF given THEN PyStr ELSE PyNone

\* x and y: x if x is falsy (None here; a given option is a non-empty
\* string), else y.
PyAnd(x, y) == IF x = PyNone THEN x ELSE y

\* bool(x) of an option value.
PyTruth(x) == PyBool(x # PyNone)

\* Line 98: bool(opts.ckpt) != (opts.wandb_restore_ckpt and
\* opts.wandb_restore_run_path).  The right side is a str or None, never a
\* bool, and values of different types are unequal.
predict_source_assert(o) ==
    PyTruth(PyOption(o.ckpt))
        # PyAnd(PyOption(o.wandb_restore_ckpt), PyOption(o.wandb_restore_run_path))

PredictUnchanged ==
    UNCHANGED <<opts, env, optimizer_state, scheduler_state, cur_itrs, cur_epochs,
                best_score, start_itrs, batch_idx, interval_loss, val_score,
                n_val, latest_slot, best_slot, wandb_finished, passes_done,
                wandb_config, trial, optimizer_hparams>>

\* Lines 57-87: options, device, the input images, the model.
PredictSetup ==
    /\ pc = "predict_parse"
    /\ IF env.input_exists
       THEN constructed' = TRUE /\ pc' = "predict_resolve" /\ UNCHANGED err
       ELSE Crash("AssertionError") /\ UNCHANGED constructed
    /\ UNCHANGED <<ckpt, model_state, model_mode>>
    /\ PredictUnchanged

\* Lines 98-114: the assertion on the restore options, then the checkpoint
\* path.  Path("checkpoints") / None raises TypeError while the arguments
\* of wandb.restore are evaluated; wandb.restore with name=None does not
\* return a file (it raises, or .name of its None result does).
PredictResolve ==
    /\ pc = "predict_resolve"
    /\ IF ~predict_source_assert(opts)
       THEN Crash("AssertionError") /\ UNCHANGED ckpt
       ELSE IF opts.ckpt
            THEN IF env.isfile
                 THEN ckpt' = "local" /\ pc' = "predict_load" /\ UNCHANGED err
                 ELSE Crash("AssertionError") /\ UNCHANGED ckpt
            ELSE IF ~env.token
                 THEN Crash("AssertionError") /\ UNCHANGED ckpt
                 ELSE IF ~opts.wandb_restore_run_path
                      THEN Crash("TypeError") /\ UNCHANGED ckpt
                      ELSE IF ~opts.wandb_restore_ckpt
                           THEN /\ \E type \in {"TypeError", "AttributeError"} : Crash(type)
                                /\ UNCHANGED ckpt
                           ELSE ckpt' = "remote" /\ pc' = "predict_load" /\ UNCHANGED err
    /\ UNCHANGED <<constructed, model_state, model_mode>>
    /\ PredictUnchanged

\* Lines 89-96 and 116: load_ckpt of predict.py loads the weights.
PredictLoad ==
    /\ pc = "predict_load"
    /\ model_state' = env.file.model_state
    /\ pc' = "predict_run"
    /\ UNCHANGED <<err, constructed, ckpt, model_mode>>
    /\ PredictUnchanged

\* Lines 118-149: the images are segmented in evaluation mode.
PredictRun ==
    /\ pc = "predict_run"
    /\ model_mode' = "eval"
    /\ pc' = "done"
    /\ UNCHANGED <<err, constructed, ckpt, model_state>>
    /\ PredictUnchanged

PredictNext ==
    \/ PredictSetup
    \/ PredictResolve
    \/ PredictLoad
    \/ PredictRun

PredictSpec == PredictInit /\ [][PredictNext]_vars

\* ------------------------------------------------------------ vocabulary
\* Positions of one validation event.
InValidationEvent == pc \in {"save_latest", "validate", "select_best"}

\* Positions between taking a batch and the boundary test after it.
InBatch == pc \in {"save_latest", "validate", "select_best", "sched"}

\* The restore has just produced the TrainingState; nothing has run on it yet.
JustRestored == pc \in {"test_only", "epoch"} /\ cur_epochs = 0

BadRestoreOptions == RestoreConflict(opts) \/ RestorePairIncomplete(opts)

\* ------------------------------------------------------------------ C1
\* C1: a restore with continue_training = false completes without error and
\* yields iteration 0, best score 0, the checkpoint's weights and a fresh
\* optimizer and scheduler.
C1_WeightsOnlyRestore ==
    (ckpt # "none" /\ ~opts.continue_training /\ pc # "restore")
        => /\ err = ""
           /\ JustRestored =>
                 /\ cur_itrs = 0 /\ start_itrs = 0 /\ best_score = 0
                 /\ model_state = env.file.model_state
                 /\ optimizer_state = 0 /\ scheduler_state = 0

\* ------------------------------------------------------------------ C2
\* What save_ckpt would store of the state now.
CurrentBundle ==
    save_ckpt(cur_itrs, model_state, optimizer_state, scheduler_state, best_score)

\* The restore of this run went through load_ckpt with continue_training
\* and without ignore_previous_best_score.
RestoredInFull ==
    /\ JustRestored /\ ckpt # "none"
    /\ opts.continue_training /\ ~opts.ignore_previous_best_score

\* C2: save followed by restore is a round trip.  Whatever a run writes into
\* a slot is the state it has at that point, and after a restore with
\* continue_training = true and ignore_previous_best_score unset, iteration,
\* best score, optimizer state and scheduler state (and the weights) are
\* exactly the values stored in the file restored from, be it a file found
\* at the start or one an earlier run of the loop has written.
C2_RoundTrip ==
    /\ [](RestoredInFull =>
            CurrentBundle = checkpoint_file(env, latest_slot, best_slot))
    /\ [][/\ latest_slot' # latest_slot => latest_slot' = Some(CurrentBundle')
          /\ best_slot' # best_slot => best_slot' = Some(CurrentBundle')]_vars

\* The second run has restored what the first, itself a resumed run with a
\* positive best score, wrote into the latest slot.
C2_Witness ==
    /\ RestoredInFull /\ trial = 2
    /\ env.ckpt_path = "latest"
    /\ Get(latest_slot) # env.file
    /\ cur_itrs = env.file.cur_itrs + 1
    /\ scheduler_state = env.file.scheduler_state
    /\ optimizer_state = cur_itrs
    /\ best_score > 0

\* ------------------------------------------------------------------ C3
\* C3: a run given both restore sources, or half of the remote pair, is
\* rejected before the loaders, model, optimizer and scheduler are built.
C3_RejectedBeforeConstruction ==
    BadRestoreOptions => ~constructed

\* ------------------------------------------------------------------ C4
\* C4: with an epoch budget configured, a batch is taken after a batch
\* boundary only while iteration < total_itrs and a pass is started after a
\* pass boundary only while epoch < n_epochs; the loop returns only when one
\* of the two predicates holds; nothing runs after the return; and a run that
\* enters the loop reaches the return.
C4_Boundaries ==
    opts.n_epochs # None =>
        /\ (pc = "batch" /\ cur_itrs > start_itrs) => cur_itrs < opts.total_itrs
        /\ (pc = "epoch" /\ cur_epochs > 0) =>
               /\ cur_epochs < Get(opts.n_epochs)
               /\ cur_itrs > start_itrs => cur_itrs < opts.total_itrs
        /\ (pc = "done" /\ ~opts.test_only) =>
               \/ cur_itrs >= opts.total_itrs
               \/ cur_epochs >= Get(opts.n_epochs)

C4_Termination ==
    /\ []C4_Boundaries
    /\ [][pc # "done"]_vars
    /\ (pc = "epoch" /\ opts.n_epochs # None) ~> (pc = "done")

C4_Witness ==
    /\ pc = "done" /\ opts.n_epochs # None /\ ~opts.test_only
    /\ cur_epochs >= Get(opts.n_epochs) /\ cur_itrs < opts.total_itrs
    /\ cur_itrs > start_itrs

\* ------------------------------------------------------------------ C5
\* C5: without an epoch budget the run passes every pass boundary and ends
\* only by the iteration budget.
C5_NoEpochBudget ==
    (opts.n_epochs = None /\ passes_done > 0)
        => /\ err = ""
           /\ pc = "done" => cur_itrs >= opts.total_itrs

\* ------------------------------------------------------------------ C6
\* C6: the fresh run with total_itrs = 20, 5 batches per pass and the default
\* interval validates exactly at iterations 5, 10, 15, 20 and returns
\* normally right after the event of iteration 20.
C6_Scenario ==
    (opts = ScenarioOpts /\ env = ScenarioEnv)
        => /\ err = ""
           /\ cur_itrs <= 20
           /\ InValidationEvent => cur_itrs \in {5, 10, 15, 20}
           /\ pc = "sched" => n_val = cur_itrs \div 5
           /\ pc = "done" => cur_itrs = 20 /\ n_val = 4

\* ------------------------------------------------------------------ C7
\* C7: best_score never decreases; the "best" slot is written exactly by a
\* validation event whose Mean IoU is strictly greater than the stored best,
\* and then holds that score; otherwise best_score and the slot are unchanged.
C7_BestScore ==
    [][ /\ best_score' >= best_score
        /\ (best_slot' # best_slot)
              <=> (pc = "select_best" /\ Get(val_score) > best_score)
        /\ (best_slot' # best_slot)
              => /\ best_score' = Get(val_score)
                 /\ Get(best_slot').best_score = Get(val_score)
        /\ (best_slot' = best_slot /\ pc = "select_best")
              => best_score' = best_score ]_vars

\* An event with a score equal to the stored best, after an earlier event
\* that improved it: the slot still holds the earlier save.
C7_Witness ==
    /\ pc = "sched" /\ n_val >= 2
    /\ best_slot # None /\ val_score = Some(best_score) /\ best_score > 0
    /\ Get(best_slot).cur_itrs < cur_itrs
    /\ Get(best_slot).best_score = best_score

\* ------------------------------------------------------------------ C8
\* C8: once the run's starting iteration is set, cur_itrs changes only when
\* a batch is processed, and then by exactly one; it equals the starting
\* iteration plus the number of batches processed.
C8_Counted ==
    (pc \in {"batch", "save_latest", "validate", "select_best", "sched", "epoch_end"})
        => cur_itrs = start_itrs + (cur_epochs - 1) * env.len_train_loader + batch_idx

C8_Iteration ==
    /\ []C8_Counted
    /\ [][ pc \notin {"check_restore", "restore"}
             => /\ (cur_itrs' # cur_itrs) => pc = "batch"
                /\ (pc = "batch") => cur_itrs' = cur_itrs + 1 ]_vars

C8_Witness ==
    /\ pc = "epoch_end" /\ start_itrs > 0 /\ cur_epochs = 2
    /\ latest_slot # None /\ best_slot # None
    /\ cur_itrs = start_itrs + 2 * env.len_train_loader

\* ------------------------------------------------------------------ C9
\* C9 as written: while a batch is being processed, and at termination of
\* the loop, cur_epochs equals the number of passes completed so far.
C9_EqualsCompletedPasses ==
    (pc = "batch" \/ InBatch \/ (pc = "done" /\ ~opts.test_only))
        => cur_epochs = passes_done

\* C9 amended: cur_epochs changes only at the start of a pass, by exactly
\* one; while a batch of a pass is being processed it is the number of
\* completed passes plus one, and at the boundary after a completed pass
\* (and at termination by the epoch budget) it is the number of completed
\* passes.
C9_Numbering ==
    /\ (pc = "batch" \/ InBatch) => cur_epochs = passes_done + 1
    /\ pc = "epoch_end" => cur_epochs = passes_done
    /\ (pc = "done" /\ ~opts.test_only /\ cur_itrs < opts.total_itrs)
          => cur_epochs = passes_done

C9_EpochCounter ==
    /\ []C9_Numbering
    /\ [][ (cur_epochs' # cur_epochs)
             => (pc = "epoch" /\ cur_epochs' = cur_epochs + 1) ]_vars
    /\ [][ (pc = "epoch") => cur_epochs' = cur_epochs + 1 ]_vars

C9_Witness ==
    /\ pc = "sched" /\ cur_epochs = 2 /\ passes_done = 1
    /\ batch_idx < env.len_train_loader

\* ----------------------------------------------------------------- C10
\* C10: an evaluation-only run never enters the training loop, never writes
\* the "latest" or "best" slot, keeps iteration, epoch and best score at
\* their values after the restore, and returns after exactly one validation
\* pass.
C10_PostRestore ==
    /\ cur_itrs = (IF ckpt # "none" THEN env.file.cur_itrs ELSE 0)
    /\ cur_itrs = start_itrs
    /\ best_score = (IF ckpt # "none"
                     THEN RestoredBestScore(opts.ignore_previous_best_score,
                                            env.file.best_score)
                     ELSE 0)

C10_EvaluationOnly ==
    opts.test_only =>
        /\ pc \notin {"epoch", "batch", "save_latest", "validate", "select_best",
                      "sched", "epoch_end"}
        /\ latest_slot = None /\ best_slot = None
        /\ cur_epochs = 0
        /\ n_val = (IF pc = "done" THEN 1 ELSE 0)
        /\ pc \in {"test_only", "done"}
              => /\ C10_PostRestore
                 /\ optimizer_state = (IF ckpt # "none" THEN env.file.optimizer_state ELSE 0)
                 /\ model_state = (IF ckpt # "none" THEN env.file.model_state ELSE 0)

C10_Witness ==
    /\ opts.test_only /\ pc = "done" /\ n_val = 1
    /\ ckpt # "none" /\ cur_itrs > 0 /\ best_score > 0

\* ----------------------------------------------------------------- C11
\* C11: whenever the training entry point has returned (iteration budget,
\* epoch budget or evaluation-only), wandb_run.finish() was called exactly
\* once.
C11_FinalizedOnce ==
    pc = "done" => wandb_finished = 1

\* ----------------------------------------------------------------- C12
\* C12: a restore with ignore_previous_best_score set completes, for either
\* value of continue_training, with best_score = 0; with continue_training
\* the iteration, optimizer and scheduler state are the checkpoint's, and
\* with the flag unset so is the best score.
C12_IgnoreIsIndependent ==
    /\ (ckpt # "none" /\ opts.ignore_previous_best_score /\ pc # "restore")
          => /\ err = ""
             /\ JustRestored => best_score = 0
    /\ (JustRestored /\ ckpt # "none" /\ opts.continue_training)
          => /\ cur_itrs = env.file.cur_itrs
             /\ optimizer_state = env.file.optimizer_state
             /\ scheduler_state = env.file.scheduler_state
             /\ ~opts.ignore_previous_best_score
                   => best_score = env.file.best_score

\* ----------------------------------------------------------------- C14
\* Scheduler state with which the run entered the loop.
SchedulerAtStart ==
    IF ckpt # "none" THEN env.file.scheduler_state ELSE 0

\* C14: in every batch the scheduler step precedes the cadence check, so
\* during the validation event of iteration k (latest save, validation,
\* best save) the scheduler has made as many steps in this run as batches
\* were processed.
C14_SchedulerBeforeCadence ==
    InValidationEvent
        => scheduler_state - SchedulerAtStart = cur_itrs - start_itrs

\* ----------------------------------------------------------------- C15
\* C15: after a processed batch a validation event fires exactly when
\* ((cur_itrs - start_itrs) mod len(train_loader)) mod val_interval = 0; with
\* the default interval events happen only on the last batch of a pass and
\* every completed pass has had exactly one.
C15_DefaultInterval ==
    (opts.val_interval = None /\ env.len_train_loader > 0)
        => /\ InValidationEvent => batch_idx = env.len_train_loader
           /\ pc = "epoch_end" => n_val = passes_done
           /\ (pc = "sched" /\ batch_idx = env.len_train_loader)
                 => n_val = cur_epochs

C15_Cadence ==
    /\ []C15_DefaultInterval
    /\ [][ pc = "batch"
             => ( pc' = "save_latest"
                    <=> ((cur_itrs' - start_itrs) % env.len_train_loader)
                           % (IF opts.val_interval = None
                              THEN env.len_train_loader
                              ELSE Get(opts.val_interval)) = 0 ) ]_vars

\* A resumed run with the default interval, in the event that ends a pass,
\* started at an iteration that is no multiple of the pass length.
C15_Witness ==
    /\ pc = "save_latest" /\ opts.val_interval = None /\ start_itrs > 0
    /\ batch_idx = env.len_train_loader
    /\ env.len_train_loader > 1 /\ start_itrs % env.len_train_loader # 0

\* ----------------------------------------------------------------- C16
\* C16: a validation event saves the "latest" checkpoint first, then runs
\* exactly one validation pass, then compares with the best score (saving
\* "best" on improvement), then goes on to the scheduler step; no batch is
\* processed in between.
C16_EventState ==
    /\ pc \in {"validate", "select_best"}
          => /\ latest_slot # None
             /\ Get(latest_slot) = save_ckpt(cur_itrs, model_state, optimizer_state,
                                             scheduler_state, best_score)
    /\ pc = "select_best" => val_score # None

C16_EventOrder ==
    /\ []C16_EventState
    /\ [][ /\ pc = "save_latest"
               => /\ pc' = "validate" /\ n_val' = n_val
                  /\ latest_slot' # None
                  /\ UNCHANGED <<best_slot, best_score>>
           /\ pc = "validate"
               => /\ pc' = "select_best" /\ n_val' = n_val + 1
                  /\ UNCHANGED <<latest_slot, best_slot, best_score>>
           /\ pc = "select_best"
               => /\ pc' = "sched" /\ n_val' = n_val
                  /\ UNCHANGED latest_slot
           /\ InValidationEvent
               => UNCHANGED <<cur_itrs, batch_idx, model_state, optimizer_state,
                              scheduler_state>> ]_vars

C16_Witness ==
    /\ pc = "sched" /\ n_val = 2
    /\ latest_slot # None /\ Get(latest_slot).cur_itrs = cur_itrs
    /\ best_slot # None /\ Get(best_slot).cur_itrs = cur_itrs
    /\ Get(latest_slot).best_score < Get(best_slot).best_score

\* ----------------------------------------------------------------- C17
\* C17: whenever a slot is written, the bundle holds the iteration, weights
\* and optimizer state of that moment; its iteration is the starting
\* iteration plus the optimizer steps applied to its weights in this run; a
\* "latest" bundle holds the best score of that moment and a "best" bundle
\* the new best score.
C17_Bundles ==
    [][ /\ (latest_slot' # latest_slot)
            => /\ Get(latest_slot') = save_ckpt(cur_itrs, model_state, optimizer_state,
                                                scheduler_state, best_score)
               /\ cur_itrs - start_itrs
                     = model_state - (IF ckpt # "none" THEN env.file.model_state ELSE 0)
        /\ (best_slot' # best_slot)
            => /\ Get(best_slot') = save_ckpt(cur_itrs, model_state, optimizer_state,
                                              scheduler_state, best_score')
               /\ best_score' > best_score
               /\ cur_itrs - start_itrs
                     = model_state - (IF ckpt # "none" THEN env.file.model_state ELSE 0) ]_vars

\* A resumed run that has written both slots, the best one in a later event.
C17_Witness ==
    /\ pc = "sched" /\ start_itrs > 0
    /\ latest_slot # None /\ best_slot # None
    /\ Get(best_slot).cur_itrs = cur_itrs /\ Get(best_slot).cur_itrs > start_itrs + 1
    /\ Get(best_slot).best_score > Get(latest_slot).best_score

\* ----------------------------------------------------------------- C20
\* C20: with a configured interval N, validation events happen exactly at
\* N, 2N, 3N, ... iterations since the run's start.
C20_EveryN ==
    opts.val_interval # None
        => /\ InValidationEvent
                => (cur_itrs - start_itrs) % Get(opts.val_interval) = 0
           /\ pc = "sched"
                => n_val = (cur_itrs - start_itrs) \div Get(opts.val_interval)

\* ------------------------------------------------------------------- C13
\* wandb.init has handed this trial its configuration.
SweepConfigFetched == opts.sweep /\ wandb_config # None

\* The sweep has set this key for the trial: the configuration holds a value
\* other than the command line's.
SweepProvided(key) == Get(wandb_config)[key] # CommandLine(key)

CommandLineValues == [key \in SweepKeys |-> CommandLine(key)]

\* C13: under a sweep, a trial for which the sweep has not set lr,
\* weight_decay or loss_type ends with an AssertionError before anything is
\* constructed (device, loaders, model, checkpoint directory); a trial for
\* which it has set all three has them in opts from then on, and what is
\* built is built from them.
C13_SweepOverride ==
    /\ (SweepConfigFetched /\ \E key \in SweepKeys : ~SweepProvided(key)) =>
          /\ pc = "crashed" /\ err = "AssertionError"
          /\ ~constructed /\ ckpt = "none" /\ optimizer_hparams = None
    /\ (SweepConfigFetched /\ \A key \in SweepKeys : SweepProvided(key)) =>
          /\ Hyperparameters(opts) = Get(wandb_config)
          /\ constructed => optimizer_hparams = Some(Get(wandb_config))

\* ------------------------------------------------------------------- C18
\* The state a trial starts its loop with, restored from the given file.
StartsFrom(file) ==
    /\ cur_itrs = (IF ckpt # "none" THEN file.cur_itrs ELSE 0)
    /\ start_itrs = cur_itrs
    /\ best_score = (IF ckpt # "none"
                     THEN RestoredBestScore(opts.ignore_previous_best_score,
                                            file.best_score)
                     ELSE 0)
    /\ model_state = (IF ckpt # "none" THEN file.model_state ELSE 0)
    /\ optimizer_state = (IF ckpt # "none" THEN file.optimizer_state ELSE 0)
    /\ n_val = 0 /\ passes_done = 0

\* The configuration a trial works with: the command line's at entry, and
\* never a value of another trial.
OwnConfiguration ==
    /\ pc = "parse" => /\ Hyperparameters(opts) = CommandLineValues
                       /\ wandb_config = None
                       /\ ~constructed /\ optimizer_hparams = None
    /\ \A key \in SweepKeys :
          opts[key] \in {CommandLine(key)} \cup SweepValuesOf(key, trial)
    /\ optimizer_hparams \in {None, Some(Hyperparameters(opts))}

\* C18: under a sweep agent every trial has its own freshly parsed
\* configuration and its own counters: it starts its loop from zero or from
\* the checkpoint the sweep was started with, whatever the trials before it
\* did.
C18_NothingCarriesOver ==
    /\ OwnConfiguration
    /\ JustRestored => StartsFrom(env.file)

\* ------------------------------------------------------------------- C19
\* Exactly one restore source: the local path alone, or the whole remote pair
\* alone.
PredictOneSource(o) ==
    \/ o.ckpt /\ ~o.wandb_restore_ckpt /\ ~o.wandb_restore_run_path
    \/ ~o.ckpt /\ o.wandb_restore_ckpt /\ o.wandb_restore_run_path

\* C19: predict.py given both restore sources, none, or half of the remote
\* pair stops at the check of the restore options with an AssertionError,
\* no checkpoint resolved or loaded.
C19_ExactlyOneSource ==
    (~PredictOneSource(opts) /\ pc \notin {"predict_parse", "predict_resolve"})
        => /\ pc = "crashed" /\ err = "AssertionError"
           /\ ckpt = "none" /\ model_state = 0

\* ------------------------------------------------------------------- C21
\* C21: in every run, fresh or continued from a checkpoint, the batch that
\* reports and resets the running loss finds in it, its own loss included,
\* the losses of exactly ReportEvery batches, the divisor of the reported
\* mean; between reports the accumulator only grows by one per batch.
C21_TenLosses ==
    [][pc = "batch" =>
         IF cur_itrs' % ReportEvery = 0
         THEN interval_loss + 1 = ReportEvery /\ interval_loss' = 0
         ELSE interval_loss' = interval_loss + 1]_vars

\* ------------------------------------------------------------------- C22
\* C22: every validation pass, in the loop or evaluation-only, runs in
\* evaluation mode, and every training batch is taken and processed in
\* training mode, the first batch after a validation event inside a pass
\* included.
C22_Modes ==
    /\ [](pc = "batch" => model_mode = "train")
    /\ [](pc = "select_best" => model_mode = "eval")
    /\ [][n_val' = n_val + 1 => model_mode' = "eval"]_vars
    /\ [][cur_itrs' = cur_itrs + 1 =>
            model_mode = "train" /\ model_mode' = "train"]_vars

\* About to take the second batch of a pass whose first batch was followed
\* by a validation event.
C22_Witness ==
    /\ pc = "batch" /\ model_mode = "train"
    /\ batch_idx = 1 /\ env.len_train_loader > 1
    /\ n_val = 1 /\ cur_itrs = start_itrs + 1

\* ------------------------------------------------------------------- C23
\* C23: the iteration counter never exceeds the larger of the iteration
\* budget and the iteration the run was restored at: no batch is processed
\* once the counter has reached the budget.
C23_NeverBeyondBudget ==
    cur_itrs <= (IF start_itrs > opts.total_itrs THEN start_itrs ELSE opts.total_itrs)

\* ------------------------------------------------------------------- C24
\* C24: every checkpoint the loop has written stores as many scheduler steps
\* as iterations, so a run continued from it has the scheduler of an
\* uninterrupted run.
C24_SchedulerInCheckpoint ==
    \A slot \in {latest_slot, best_slot} :
        slot # None => Get(slot).scheduler_state = Get(slot).cur_itrs

\* ------------------------------------------------------------------- C25
\* C25: a training run that has processed batches and ended by one of its
\* budgets leaves in the "latest" slot the checkpoint of its final iteration.
C25_LatestIsFinal ==
    (pc = "done" /\ ~opts.test_only /\ cur_itrs > start_itrs)
        => /\ latest_slot # None
           /\ Get(latest_slot).cur_itrs = cur_itrs

\* ------------------------------------------------------------------- C26
\* C26: across the trials of a sweep, which write the same "best" file, the
\* best score stored in that file never decreases.
C26_BestSlotNeverDecreases ==
    [][(best_slot # None /\ best_slot' # best_slot)
          => Get(best_slot').best_score >= Get(best_slot).best_score]_vars
====
